---- MODULE Spec2Model ----
(***************************************************************************)
(* State-machine model of the Secvest integration: the status model        *)
(* (coordinator.py helpers), the polling coordinator with its circuit      *)
(* breaker and forced zone refresh (coordinator.py), the command paths     *)
(* (__init__.py service, alarm_control_panel.py entity) and the device     *)
(* client's request loop (api.py).                                         *)
(*                                                                         *)
(* Python strings that the code edits character by character (zone names)  *)
(* are sequences of one-character strings; fixed phrases are one token.    *)
(* Optional values (SecvestData | None) are sequences of length 0 or 1.    *)
(***************************************************************************)
EXTENDS Integers, Sequences, FiniteSets, TLC

VARIABLES
    cfg,                    \* constructor arguments of SecvestCoordinator / SecvestApi
    clock,                  \* time.time()
    data,                   \* DataUpdateCoordinator.data: <<>> or <<SecvestData>>
    zones_tick,             \* self._zones_tick
    consecutive_failures,   \* self._consecutive_failures
    breaker_until,          \* self._breaker_until
    last_error,             \* self._last_error
    tick,                   \* the running / last scheduled _async_update_data call
    cmd,                    \* the running / last command (service or alarm entity)
    hist,                   \* observations of the run used to state the properties
    api                     \* the running / last SecvestApi._request_json call

vars == <<cfg, clock, data, zones_tick, consecutive_failures, breaker_until,
          last_error, tick, cmd, hist, api>>

coordVars == <<cfg, clock, data, zones_tick, consecutive_failures, breaker_until,
               last_error, tick, cmd, hist>>

----------------------------------------------------------------------------
\* Bounds of the model

\* latest clock value explored
MaxClock == 15
\* granularity of the passage of time
TimeStep == 5
\* cap of the failure counter
MaxFailures == 3
\* configured poll interval (scan_interval_s) and zones interval, in seconds
ScanInterval == 30
ZonesInterval == 60
\* largest `retries` of the device client, largest number of candidate paths
MaxRetries == 3
MaxPaths == 2
\* longest raw zone list explored by the status-model checks
MaxZones == 3

\* configured (breaker_threshold, breaker_cooldown) pairs explored
Configs ==
    { [breaker_threshold |-> 0, breaker_cooldown |-> 5],
      [breaker_threshold |-> 2, breaker_cooldown |-> 15] }

----------------------------------------------------------------------------
\* Python values

None == "None"
\* a value that is not a str (None, a number): as a name, as a state
NotStr == <<"#notstr">>
NotStrState == "#notstr"
\* isinstance(x, str), for a name (character sequence) and for a state (atom)
isinstance_str(x) == x /= NotStr
isinstance_str_state(x) == x /= NotStrState

Max(a, b) == IF a >= b THEN a ELSE b

RECURSIVE replace(_, _, _)
\* str.replace(old, new) for a one-character `old`
replace(s, old, new) ==
    IF s = <<>> THEN <<>>
    ELSE (IF Head(s) = old THEN new ELSE <<Head(s)>>) \o replace(Tail(s), old, new)

RECURSIVE join(_, _)
\* sep.join(parts)
join(sep, parts) ==
    IF parts = <<>> THEN <<>>
    ELSE IF Len(parts) = 1 THEN parts[1]
    ELSE parts[1] \o sep \o join(sep, Tail(parts))

----------------------------------------------------------------------------
\* Status model (coordinator.py)

normalize_name(name) ==
    LET r1 == replace(name, ".", <<"_">>)
        r2 == replace(r1, " ", <<"_">>)
        r3 == replace(r2, "-", <<"_">>)
        r4 == replace(r3, "/", <<"_">>)
        r5 == replace(r4, "ä", <<"a", "e">>)
        r6 == replace(r5, "Ä", <<"a", "e">>)
        r7 == replace(r6, "ö", <<"o", "e">>)
        r8 == replace(r7, "Ö", <<"o", "e">>)
        r9 == replace(r8, "ü", <<"u", "e">>)
        r10 == replace(r9, "Ü", <<"u", "e">>)
    IN  replace(r10, "ß", <<"s", "s">>)

SpokenOne == "Ich konnte die Alarmanlage nicht aktivieren, bitte schließe: "
SpokenMany == "Ich konnte die Alarmanlage nicht aktivieren, bitte folgende Fenster und Türen schließen: "

\* variant: the last name is joined by a comma too
make_spoken_zone_list_comma(zones) ==
    IF zones = <<>> THEN <<>>
    ELSE IF Len(zones) = 1 THEN <<SpokenOne>> \o zones[1] \o <<".">>
    ELSE <<SpokenMany>> \o join(<<",", " ">>, zones) \o <<".">>

make_spoken_zone_list(zones) ==
    IF zones = <<>> THEN <<>>
    ELSE IF Len(zones) = 1 THEN <<SpokenOne>> \o zones[1] \o <<".">>
    ELSE LET last == zones[Len(zones)]
             head == join(<<",", " ">>, SubSeq(zones, 1, Len(zones) - 1))
         IN  <<SpokenMany>> \o head \o <<" ", "u", "n", "d", " ">> \o last \o <<".">>

\* dict lookup: position of `key` in an insertion-ordered dict, 0 when absent
dict_index(d, key) ==
    IF \E i \in 1..Len(d) : d[i].key = key
    THEN CHOOSE i \in 1..Len(d) : d[i].key = key
    ELSE 0

\* out[key] = value on an insertion-ordered dict
dict_set(d, key, value) ==
    LET i == dict_index(d, key)
        e == [key |-> key, name |-> value.name,
              friendly_name |-> value.friendly_name, state |-> value.state]
    IN  IF i = 0 THEN Append(d, e) ELSE [d EXCEPT ![i] = e]

\* zone_name_map.get(k): <<>> stands for a missing entry (falsy like "")
map_get(m, k) == IF k \in DOMAIN m THEN m[k] ELSE <<>>

\* variant: the state is not required to be a string
RECURSIVE build_zones_loop_any_state(_, _, _)
build_zones_loop_any_state(payload, zone_name_map, out) ==
    IF payload = <<>> THEN out
    ELSE LET z == Head(payload)
             key == normalize_name(z.name)
             friendly == replace(key, "_", <<" ">>)
         IN  IF ~z.isdict \/ ~isinstance_str(z.name)
             THEN build_zones_loop_any_state(Tail(payload), zone_name_map, out)
             ELSE build_zones_loop_any_state(Tail(payload), zone_name_map,
                      dict_set(out, key, [name |-> z.name,
                                          friendly_name |-> friendly,
                                          state |-> z.state]))

RECURSIVE build_zones_loop(_, _, _)
build_zones_loop(payload, zone_name_map, out) ==
    IF payload = <<>> THEN out
    ELSE LET z == Head(payload)
             raw_name == z.name
             state == z.state
             key == normalize_name(raw_name)
             mapped == IF map_get(zone_name_map, key) /= <<>>
                       THEN map_get(zone_name_map, key)
                       ELSE map_get(zone_name_map, raw_name)
             friendly == IF mapped /= <<>> THEN mapped
                         ELSE replace(key, "_", <<" ">>)
         IN  IF ~z.isdict \/ ~isinstance_str(raw_name) \/ ~isinstance_str_state(state)
             THEN build_zones_loop(Tail(payload), zone_name_map, out)
             ELSE build_zones_loop(Tail(payload), zone_name_map,
                      dict_set(out, key, [name |-> raw_name,
                                          friendly_name |-> friendly,
                                          state |-> state]))

build_zones_dict(zones_payload, zone_name_map) ==
    build_zones_loop(zones_payload, zone_name_map, <<>>)

RECURSIVE open_names_of(_)
\* the list comprehension of _compose_data
open_names_of(zones) ==
    IF zones = <<>> THEN <<>>
    ELSE (IF Head(zones).state = "open" /\ isinstance_str(Head(zones).friendly_name)
          THEN <<Head(zones).friendly_name>> ELSE <<>>)
         \o open_names_of(Tail(zones))

compose_data(raw_mode, human_mode, zones, available, err) ==
    LET open_zone_names == open_names_of(zones)
    IN  [raw_mode |-> raw_mode,
         human_mode |-> human_mode,
         zones |-> zones,
         open_zone_names |-> open_zone_names,
         open_zones_csv |-> join(<<",", " ">>, open_zone_names),
         open_zones_spoken |-> make_spoken_zone_list(open_zone_names),
         available |-> available,
         last_error |-> err]

\* const.py
VALID_MODES == {"set", "partset", "unset"}
STATE_TRANSLATIONS ==
    [m \in VALID_MODES |->
        CASE m = "set" -> "Scharf"
          [] m = "partset" -> "Teilscharf"
          [] m = "unset" -> "Unscharf"]

\* variant: an unmapped mode is shown as it is
translate_mode_raw(raw_mode) ==
    IF raw_mode \in DOMAIN STATE_TRANSLATIONS THEN STATE_TRANSLATIONS[raw_mode]
    ELSE raw_mode

\* STATE_TRANSLATIONS.get(raw_mode, "Unbekannt")
translate_mode(raw_mode) ==
    IF raw_mode \in DOMAIN STATE_TRANSLATIONS THEN STATE_TRANSLATIONS[raw_mode]
    ELSE "Unbekannt"

----------------------------------------------------------------------------
\* Inputs: what the panel and the transport can answer

\* mode strings the panel reports; "night" has no entry in STATE_TRANSLATIONS
DeviceModes == {"unset", "night"}

\* exceptions an awaited api call can end with, by class
ApiErrors == {"SecvestApiError", "TimeoutError", "Exception"}

Z(isdict, name, state) == [isdict |-> isdict, name |-> name, state |-> state]

\* raw zone lists returned by get_zones(): valid rows, a non-dict row, rows
\* without a string name or state, an empty name, two names with one key
ZonePayloads ==
    { << Z(TRUE, <<"T", "ü", "r">>, "closed") >>,
      << Z(TRUE, <<"T", "ü", "r">>, "open"), Z(TRUE, <<"a", " ", "b">>, "closed") >>,
      << Z(FALSE, NotStr, NotStrState), Z(TRUE, <<"a", " ", "b">>, "closed"),
         Z(TRUE, <<"T", "ü", "r">>, "open"), Z(TRUE, NotStr, "open"),
         Z(TRUE, <<"K">>, NotStrState), Z(TRUE, <<"a", "_", "b">>, "open"),
         Z(TRUE, <<>>, "open") >> }

\* the configured zone_name_map (key or raw name -> friendly name)
ZoneNameMap == (<<"T", "u", "e", "r">> :> <<"H", "a", "u", "s">>)

----------------------------------------------------------------------------
\* Polling coordinator (coordinator.py)

\* SecvestCoordinator.__init__: the clamped breaker settings
breaker_threshold == Max(1, cfg.breaker_threshold)
breaker_cooldown == Max(10, cfg.breaker_cooldown)

\* repr(err)
repr(e) == e

TickIdle ==
    [pc |-> "idle", raw_mode |-> None, human_mode |-> None, calls |-> <<>>,
     zones_payload |-> <<>>, rival |-> "none",
     open_at_start |-> FALSE, failure |-> "none", had_data |-> FALSE,
     raised |-> FALSE, result |-> <<>>, published |-> 0, done |-> FALSE]

CmdIdle ==
    [pc |-> "idle", kind |-> "none", mode |-> "none", log |-> <<>>,
     seen |-> <<>>, published |-> 0, was_open |-> FALSE, overtaken |-> FALSE,
     result |-> "none"]

\* The order in which overlapping get_zones() calls were issued:
\* tick.rival, while the tick waits for its get_zones(): "earlier" when a forced
\* refresh issued before it is still waiting, "later_published" when a forced
\* refresh issued after it has published its zones, "none" otherwise;
\* cmd.overtaken, while the forced refresh waits: a tick whose get_zones() was
\* issued after the refresh's has published its zones.
\* streak: the number of scheduled ticks whose device call failed since the
\* last device call that succeeded (in a tick or in a forced refresh)
HistInit ==
    [streak |-> 0]

ApiIdle ==
    [pc |-> "idle", retries |-> 0, npaths |-> 0, expect_json |-> TRUE,
     attempt |-> 0, path |-> 0, requests |-> <<>>, sleeps |-> <<>>,
     last_exc |-> None, result |-> "none", cause |-> None,
     last_response |-> "none", only_transient |-> TRUE, only_timeout |-> TRUE]

Init ==
    /\ cfg \in Configs
    /\ clock = 0
    /\ data = <<>>
    /\ zones_tick = 0
    /\ consecutive_failures = 0
    /\ breaker_until = 0
    /\ last_error = None
    /\ tick = TickIdle
    /\ cmd = CmdIdle
    /\ hist = HistInit
    /\ api = ApiIdle

\* The observations of a finished call describe the step that ended it: they
\* are dropped at the next step of anything else (an unfinished call keeps its
\* own)
forget_cmd == IF cmd.pc = "idle" THEN CmdIdle ELSE cmd
forget_tick == IF tick.pc = "idle" THEN TickIdle ELSE tick

\* time passes, also while a task is suspended at a network call
Advance ==
    /\ clock + TimeStep <= MaxClock
    /\ clock' = clock + TimeStep
    /\ tick' = forget_tick
    /\ cmd' = forget_cmd
    /\ UNCHANGED <<cfg, data, zones_tick, consecutive_failures, breaker_until,
                   last_error, hist, api>>

\* `now < self._breaker_until`
breaker_active(now) == now < breaker_until

\* the degraded Snapshot of the breaker short-circuit
short_circuit_data ==
    compose_data(data[1].raw_mode, data[1].human_mode, data[1].zones, FALSE,
                 IF last_error /= None THEN last_error ELSE "Circuit breaker active")

\* variant: the degraded Snapshot takes the mode the failed tick has just read
degraded_data_new_mode(err) ==
    compose_data(tick.raw_mode, tick.human_mode, data[1].zones, FALSE, err)

\* variant: the degraded Snapshot forgets the zones
degraded_data_drops_zones(err) ==
    compose_data(data[1].raw_mode, data[1].human_mode, <<>>, FALSE, err)

\* the degraded Snapshot of the except branches
degraded_data(err) ==
    compose_data(data[1].raw_mode, data[1].human_mode, data[1].zones, FALSE, err)

\* the zones a successful tick starts from: dict(self.data.zones) or {}
previous_zones == IF data /= <<>> /\ data[1].zones /= <<>> THEN data[1].zones ELSE <<>>

\* variant: the zones sub-poll is due one tick later
zones_due_later(t) == t > ZonesInterval

\* whether the zones sub-poll is due: self._zones_tick >= zones interval
zones_due(t) == t >= ZonesInterval

\* variant: every failure opens the breaker
breaker_trips_always(failures) == failures >= 0

\* variant: the comparison is off by one
breaker_trips_late(failures) == failures > breaker_threshold

\* whether the failure counter trips the breaker
breaker_trips(failures) == failures >= breaker_threshold

\* variant: the returned Snapshot is not stored
TickReturns_not_stored(t, snapshot) ==
    /\ data' = data
    /\ tick' = [t EXCEPT !.pc = "idle", !.done = TRUE, !.raised = FALSE,
                         !.had_data = (data /= <<>>), !.result = <<snapshot>>,
                         !.published = @ + 1]

\* DataUpdateCoordinator: the value _async_update_data returns becomes .data
\* and the listeners are notified
TickReturns(t, snapshot) ==
    /\ data' = <<snapshot>>
    /\ tick' = [t EXCEPT !.pc = "idle", !.done = TRUE, !.raised = FALSE,
                         !.had_data = (data /= <<>>), !.result = <<snapshot>>,
                         !.published = @ + 1]

\* DataUpdateCoordinator: UpdateFailed leaves .data as it is
TickRaises(t) ==
    /\ data' = data
    /\ tick' = [t EXCEPT !.pc = "idle", !.done = TRUE, !.raised = TRUE,
                         !.had_data = (data /= <<>>), !.result = <<>>]

\* variant: a short-circuited tick restarts the cooldown
TickShortCircuit_extends ==
    /\ tick.pc = "idle"
    /\ breaker_active(clock)
    /\ LET t == [TickIdle EXCEPT !.open_at_start = (clock < breaker_until),
                                 !.failure = "breaker"]
       IN  IF data /= <<>> THEN TickReturns(t, short_circuit_data)
           ELSE TickRaises(t)
    /\ breaker_until' = clock + breaker_cooldown
    /\ cmd' = forget_cmd
    /\ UNCHANGED <<cfg, clock, zones_tick, consecutive_failures,
                   last_error, hist, api>>

\* _async_update_data, lines 177-187: the breaker is open
TickShortCircuit ==
    /\ tick.pc = "idle"
    /\ breaker_active(clock)
    /\ LET t == [TickIdle EXCEPT !.open_at_start = (clock < breaker_until),
                                 !.failure = "breaker"]
       IN  IF data /= <<>> THEN TickReturns(t, short_circuit_data)
           ELSE TickRaises(t)
    /\ cmd' = forget_cmd
    /\ UNCHANGED <<cfg, clock, zones_tick, consecutive_failures, breaker_until,
                   last_error, hist, api>>

\* variant: the first tick after the cooldown starts from a cleared counter
TickStart_resets_counter ==
    /\ tick.pc = "idle"
    /\ ~breaker_active(clock)
    /\ tick' = [TickIdle EXCEPT !.pc = "get_mode", !.calls = <<"get_mode">>,
                                !.open_at_start = (clock < breaker_until)]
    /\ consecutive_failures' = IF breaker_until /= 0 THEN 0 ELSE consecutive_failures
    /\ breaker_until' = 0
    /\ cmd' = forget_cmd
    /\ UNCHANGED <<cfg, clock, data, zones_tick, last_error, hist, api>>

\* _async_update_data, lines 177-190: get_mode() is issued
TickStart ==
    /\ tick.pc = "idle"
    /\ ~breaker_active(clock)
    /\ tick' = [TickIdle EXCEPT !.pc = "get_mode", !.calls = <<"get_mode">>,
                                !.open_at_start = (clock < breaker_until)]
    /\ cmd' = forget_cmd
    /\ UNCHANGED <<cfg, clock, data, zones_tick, consecutive_failures,
                   breaker_until, last_error, hist, api>>

\* variant: a successful tick leaves the breaker timestamp alone
TickSucceeds_keeps_breaker(t, raw_mode, human_mode, zones_dict) ==
    /\ consecutive_failures' = 0
    /\ breaker_until' = breaker_until
    /\ last_error' = None
    /\ TickReturns(t, compose_data(raw_mode, human_mode, zones_dict, TRUE, None))
    /\ hist' = [hist EXCEPT !.streak = 0]

\* lines 205-215: the tick ends well
TickSucceeds(t, raw_mode, human_mode, zones_dict) ==
    /\ consecutive_failures' = 0
    /\ breaker_until' = 0
    /\ last_error' = None
    /\ TickReturns(t, compose_data(raw_mode, human_mode, zones_dict, TRUE, None))
    /\ hist' = [hist EXCEPT !.streak = 0]

\* lines 190-203: get_mode() answered
TickGetModeOk(m) ==
    /\ tick.pc = "get_mode"
    /\ LET raw_mode == m
           human_mode == translate_mode(raw_mode)
           t1 == zones_tick + ScanInterval
           zones_dict == previous_zones
       IN  IF zones_due(t1)
           THEN /\ zones_tick' = 0
                /\ tick' = [tick EXCEPT !.pc = "get_zones", !.raw_mode = raw_mode,
                                        !.human_mode = human_mode,
                                        !.calls = Append(@, "get_zones"),
                                        !.rival = IF cmd.pc = "refresh"
                                                  THEN "earlier" ELSE "none"]
                /\ UNCHANGED <<data, consecutive_failures, breaker_until,
                               last_error, hist>>
           ELSE /\ zones_tick' = t1
                /\ TickSucceeds([tick EXCEPT !.raw_mode = raw_mode,
                                             !.human_mode = human_mode],
                                raw_mode, human_mode, zones_dict)
    /\ cmd' = forget_cmd
    /\ UNCHANGED <<cfg, clock, api>>

\* lines 202-215: get_zones() answered
TickGetZonesOk(p) ==
    /\ tick.pc = "get_zones"
    /\ TickSucceeds([tick EXCEPT !.zones_payload = p], tick.raw_mode,
                    tick.human_mode, build_zones_dict(p, ZoneNameMap))
    /\ cmd' = IF cmd.pc = "refresh" /\ tick.rival = "earlier"
              THEN [cmd EXCEPT !.overtaken = TRUE]
              ELSE forget_cmd
    /\ UNCHANGED <<cfg, clock, zones_tick, api>>

\* variant: the failure is raised even though a Snapshot exists
TickFails_always_raises(e) ==
    /\ tick.pc \in {"get_mode", "get_zones"}
    /\ consecutive_failures < MaxFailures
    /\ consecutive_failures' = consecutive_failures + 1
    /\ last_error' = repr(e)
    /\ breaker_until' = IF breaker_trips(consecutive_failures + 1)
                        THEN clock + breaker_cooldown
                        ELSE breaker_until
    /\ TickRaises([tick EXCEPT !.failure = e])
    /\ hist' = [hist EXCEPT !.streak = @ + 1]
    /\ cmd' = forget_cmd
    /\ UNCHANGED <<cfg, clock, zones_tick, api>>

\* the body shared by both except branches (lines 218-245 and 248-263)
TickFails(e) ==
    /\ tick.pc \in {"get_mode", "get_zones"}
    /\ consecutive_failures < MaxFailures
    /\ LET failures == consecutive_failures + 1
           err == repr(e)
           t == [tick EXCEPT !.failure = e]
       IN  /\ consecutive_failures' = failures
           /\ last_error' = err
           /\ breaker_until' = IF breaker_trips(failures)
                               THEN clock + breaker_cooldown
                               ELSE breaker_until
           /\ IF data /= <<>> THEN TickReturns(t, degraded_data(err))
              ELSE TickRaises(t)
           /\ hist' = [hist EXCEPT !.streak = @ + 1]
    /\ cmd' = forget_cmd
    /\ UNCHANGED <<cfg, clock, zones_tick, api>>

\* except (asyncio.TimeoutError, SecvestApiError), lines 217-245
TickFailsClassified ==
    \E e \in {"TimeoutError", "SecvestApiError"} : TickFails(e)

\* except Exception, lines 247-263
TickFailsUnexpected ==
    \E e \in ApiErrors \ {"TimeoutError", "SecvestApiError"} : TickFails(e)

----------------------------------------------------------------------------
\* Forced zone refresh (coordinator.py) and the command paths
\* (__init__.py handle_set_mode, alarm_control_panel.py SecvestAlarm)

\* modes a caller may pass to the set_mode service
ServiceModes == VALID_MODES \cup {"bogus"}

\* exceptions api.set_mode() can end with as far as the handlers tell them apart
SetModeErrors == ApiErrors \cup {"ClientResponseError"}

\* variant: the mode is not validated
mode_rejected_never(mode) == FALSE

\* `if mode not in VALID_MODES`
mode_rejected(mode) == mode \notin VALID_MODES

\* variant: the previous Snapshot is patched in place with the new zones
refreshed_data_patched(zones_dict) ==
    IF data /= <<>>
    THEN [data[1] EXCEPT !.zones = zones_dict, !.available = TRUE]
    ELSE compose_data(None, None, zones_dict, TRUE, None)

\* async_refresh_zones_now, lines 153-169: the Snapshot it publishes
refreshed_data(zones_dict) ==
    IF data /= <<>>
    THEN compose_data(data[1].raw_mode, data[1].human_mode, zones_dict, TRUE,
                      data[1].last_error)
    ELSE compose_data(None, None, zones_dict, TRUE, None)

\* variant: the breaker timestamp is left alone
refresh_zones_now_keeps_breaker(p) ==
    /\ data' = <<refreshed_data(build_zones_dict(p, ZoneNameMap))>>
    /\ last_error' = None
    /\ consecutive_failures' = 0
    /\ breaker_until' = breaker_until
    /\ hist' = [hist EXCEPT !.streak = 0]

\* async_refresh_zones_now, lines 151-174, once get_zones() has answered
refresh_zones_now(p) ==
    /\ data' = <<refreshed_data(build_zones_dict(p, ZoneNameMap))>>
    /\ last_error' = None
    /\ consecutive_failures' = 0
    /\ breaker_until' = 0
    /\ hist' = [hist EXCEPT !.streak = 0]

\* variant: only the full arming is guarded
service_blocks_set_only(mode, d) == mode = "set" /\ d[1].open_zone_names /= <<>>

\* handle_set_mode, line 96: arming is refused
service_blocks(mode, d) == mode \in {"set", "partset"} /\ d[1].open_zone_names /= <<>>

\* _arm_with_live_zone_refresh, line 89: arming is refused
entity_blocks(d) == d /= <<>> /\ d[1].open_zone_names /= <<>>

\* what a handler inspected: coordinator.data at that moment, and whether its
\* zones are those its own forced refresh just published ("refresh") or were
\* there before the command ("earlier")
Seen(d, from) ==
    << [has_data |-> d /= <<>>,
        open |-> IF d /= <<>> THEN d[1].open_zone_names ELSE <<>>,
        from |-> from] >>

\* the command ends with `result`
CmdEnds(c, result) == [c EXCEPT !.pc = "idle", !.result = result]

\* the command issues api.set_mode(mode)
CmdSetMode(c) == [c EXCEPT !.pc = "set_mode", !.log = Append(@, "set_mode")]

CmdBegin(kind, mode) ==
    [CmdIdle EXCEPT !.kind = kind, !.mode = mode]

\* a new call of a command
CmdStarts ==
    /\ cmd.pc = "idle"
    /\ tick' = forget_tick

\* handle_set_mode, lines 86-88: unknown mode
ServiceRejects(mode) ==
    /\ CmdStarts
    /\ mode_rejected(mode)
    /\ cmd' = CmdEnds(CmdBegin("service", mode), "HomeAssistantError:invalid_mode")
    /\ UNCHANGED <<cfg, clock, data, zones_tick, consecutive_failures,
                   breaker_until, last_error, hist, api>>

\* handle_set_mode, lines 86-91: the forced refresh is started
ServiceStart(mode) ==
    /\ CmdStarts
    /\ ~mode_rejected(mode)
    /\ cmd' = [CmdBegin("service", mode) EXCEPT !.pc = "refresh",
                                               !.log = <<"get_zones">>]
    /\ UNCHANGED <<cfg, clock, data, zones_tick, consecutive_failures,
                   breaker_until, last_error, hist, api>>

\* async_arm_home / async_arm_away -> _arm_with_live_zone_refresh, lines 82-85
EntityArmStart(mode) ==
    /\ CmdStarts
    /\ cmd' = [CmdBegin("entity", mode) EXCEPT !.pc = "refresh",
                                              !.log = <<"get_zones">>]
    /\ UNCHANGED <<cfg, clock, data, zones_tick, consecutive_failures,
                   breaker_until, last_error, hist, api>>

\* async_disarm -> _set_mode("unset")
EntityDisarmStart ==
    /\ CmdStarts
    /\ cmd' = CmdSetMode(CmdBegin("entity", "unset"))
    /\ UNCHANGED <<cfg, clock, data, zones_tick, consecutive_failures,
                   breaker_until, last_error, hist, api>>

\* handle_set_mode, lines 92-100, after the forced refresh returned
service_after_refresh(c, d, from) ==
    LET c1 == [c EXCEPT !.seen = Seen(d, from), !.log = Append(@, "inspect")]
    IN  IF d = <<>> THEN CmdEnds(c1, "HomeAssistantError:unknown_status")
        ELSE IF service_blocks(c.mode, d) THEN CmdEnds(c1, "HomeAssistantError:open_zones")
        ELSE CmdSetMode(c1)

\* _arm_with_live_zone_refresh, lines 87-93, after the try block
entity_after_refresh(c, d, from) ==
    LET c1 == [c EXCEPT !.seen = Seen(d, from), !.log = Append(@, "inspect")]
    IN  IF entity_blocks(d) THEN CmdEnds(c1, "HomeAssistantError:open_zones")
        ELSE CmdSetMode(c1)

\* the handler once its forced refresh has published the Snapshot d
cmd_after_refresh_ok(d) ==
    LET c == [cmd EXCEPT !.log = Append(@, "refresh_ok"), !.published = @ + 1,
                         !.was_open = (clock < breaker_until),
                         !.overtaken = FALSE]
    IN  IF cmd.kind = "service"
        THEN service_after_refresh(c, d, "refresh")
        ELSE entity_after_refresh(c, d, "refresh")

\* the handler once its forced refresh has raised e
\* service: the exception leaves handle_set_mode; entity: logged, then go on
cmd_after_refresh_failed(e) ==
    LET c == [cmd EXCEPT !.log = Append(@, "refresh_failed"), !.overtaken = FALSE]
    IN  IF cmd.kind = "service"
        THEN CmdEnds(c, e)
        ELSE entity_after_refresh(c, data, "earlier")

\* the handler once api.set_mode() has returned:
\* await coordinator.async_request_refresh()
cmd_after_set_mode_ok ==
    CmdEnds([cmd EXCEPT !.log = Append(@, "request_refresh")], "ok")

\* the tick as a forced refresh leaves it when it ends: a tick waiting for its
\* get_zones() notes whether a later refresh has published
tick_after_refresh(published) ==
    IF tick.pc /= "get_zones" THEN forget_tick
    ELSE IF tick.rival = "earlier" THEN [tick EXCEPT !.rival = "none"]
    ELSE IF published THEN [tick EXCEPT !.rival = "later_published"]
    ELSE tick

\* the forced refresh's get_zones() answered: publish, then go on in the handler
RefreshOk(p) ==
    /\ cmd.pc = "refresh"
    /\ refresh_zones_now(p)
    /\ cmd' = cmd_after_refresh_ok(data')
    /\ tick' = tick_after_refresh(TRUE)
    /\ UNCHANGED <<cfg, clock, zones_tick, api>>

\* the forced refresh's get_zones() raised
RefreshFails(e) ==
    /\ cmd.pc = "refresh"
    /\ cmd' = cmd_after_refresh_failed(e)
    /\ tick' = tick_after_refresh(FALSE)
    /\ UNCHANGED <<cfg, clock, data, zones_tick, consecutive_failures,
                   breaker_until, last_error, hist, api>>

\* api.set_mode() returned
SetModeOk ==
    /\ cmd.pc = "set_mode"
    /\ cmd' = cmd_after_set_mode_ok
    /\ tick' = forget_tick
    /\ UNCHANGED <<cfg, clock, data, zones_tick, consecutive_failures,
                   breaker_until, last_error, hist, api>>

\* the except clauses of handle_set_mode (lines 101-106) and _set_mode (98-111)
set_mode_error(kind, e) ==
    CASE e = "TimeoutError" -> "HomeAssistantError:timeout"
      [] e = "SecvestApiError" -> "HomeAssistantError:api"
      [] e = "ClientResponseError" -> "HomeAssistantError:http"
      [] OTHER -> IF kind = "entity" THEN "HomeAssistantError:unknown" ELSE e

\* variant: the refresh is requested although set_mode raised
SetModeFails_requests_refresh(e) ==
    /\ cmd.pc = "set_mode"
    /\ cmd' = CmdEnds([cmd EXCEPT !.log = Append(@, "request_refresh")],
                      set_mode_error(cmd.kind, e))
    /\ tick' = forget_tick
    /\ UNCHANGED <<cfg, clock, data, zones_tick, consecutive_failures,
                   breaker_until, last_error, hist, api>>

\* api.set_mode() raised
SetModeFails(e) ==
    /\ cmd.pc = "set_mode"
    /\ cmd' = CmdEnds(cmd, set_mode_error(cmd.kind, e))
    /\ tick' = forget_tick
    /\ UNCHANGED <<cfg, clock, data, zones_tick, consecutive_failures,
                   breaker_until, last_error, hist, api>>

Next ==
    \/ Advance
    \/ TickShortCircuit
    \/ TickStart
    \/ \E m \in DeviceModes : TickGetModeOk(m)
    \/ \E p \in ZonePayloads : TickGetZonesOk(p)
    \/ TickFailsClassified
    \/ TickFailsUnexpected
    \/ \E mode \in ServiceModes : ServiceRejects(mode)
    \/ \E mode \in ServiceModes : ServiceStart(mode)
    \/ \E mode \in {"partset", "set"} : EntityArmStart(mode)
    \/ EntityDisarmStart
    \/ \E p \in ZonePayloads : RefreshOk(p)
    \/ \E e \in ApiErrors : RefreshFails(e)
    \/ SetModeOk
    \/ \E e \in SetModeErrors : SetModeFails(e)

Spec == Init /\ [][Next]_vars

----------------------------------------------------------------------------
\* Device client (api.py): SecvestApi._request_json

\* DEFAULT_BACKOFF_BASE_S and the bound of the jitter, in tenths of a second
DEFAULT_BACKOFF_BASE == 12
DEFAULT_JITTER == 4

\* what one HTTP request can end with: a status (with a JSON or a non-JSON
\* body for 200) or an exception raised by the session
Responses ==
    {"200", "200_not_json", "404", "401", "403", "409", "400", "500",
     "TimeoutError", "ClientConnectorError", "ServerDisconnectedError",
     "ClientPayloadError", "RuntimeError"}

\* resp.status of a response, 0 when the request raised instead
status_of(r) ==
    CASE r \in {"200", "200_not_json"} -> 200
      [] r = "404" -> 404
      [] r = "401" -> 401
      [] r = "403" -> 403
      [] r = "409" -> 409
      [] r = "400" -> 400
      [] r = "500" -> 500
      [] OTHER -> 0

\* the exception classes of the retrying except clause, lines 130-137
retryable(exc) ==
    exc \in {"TimeoutError", "ClientConnectorError", "ServerDisconnectedError",
             "ClientOSError", "ClientPayloadError", "ClientResponseError"}

\* variant: the delay grows linearly with the attempt
backoff_linear(attempt, j) == DEFAULT_BACKOFF_BASE * attempt + j

\* _backoff(attempt) for a jitter j (random.random() * DEFAULT_JITTER_S)
backoff(attempt, j) == DEFAULT_BACKOFF_BASE * (2 ^ (attempt - 1)) + j

\* jitter values explored, 0 <= j < DEFAULT_JITTER
Jitters == {0, DEFAULT_JITTER - 1}

\* session.request(...) for `path` in `attempt` is issued
api_request(a, attempt, path) ==
    [a EXCEPT !.pc = "request", !.attempt = attempt, !.path = path,
              !.requests = Append(@, <<attempt, path>>)]

\* the call ends: "ok:..." for a return, "SecvestApiError:..." for a raise
api_done(a, result, cause) ==
    [a EXCEPT !.pc = "done", !.result = result, !.cause = cause]

\* variant: range(1, retries) instead of range(1, retries + 1)
api_next_attempt_short(a) ==
    IF a.attempt + 1 < a.retries
    THEN api_request(a, a.attempt + 1, 1)
    ELSE api_done(a, "SecvestApiError:request_failed_after_retries", a.last_exc)

\* the outer for loop moves on after `attempt`: next attempt or line 146
api_next_attempt(a) ==
    IF a.attempt + 1 <= a.retries
    THEN api_request(a, a.attempt + 1, 1)
    ELSE api_done(a, "SecvestApiError:request_failed_after_retries", a.last_exc)

\* variant: a 404 ends the attempt
api_next_path_breaks(a) == api_next_attempt(a)

\* `continue` at line 101: next candidate path, or the inner loop is over
api_next_path(a) ==
    IF a.path + 1 <= a.npaths
    THEN api_request(a, a.attempt, a.path + 1)
    ELSE api_next_attempt(a)

\* `resp.status == 404 and len(paths_list) > 1`
skip_404(a, status) == status = 404 /\ a.npaths > 1

\* variant: a 409 is raised as a retryable response error
classify_conflict_retried(a, r) ==
    LET status == status_of(r)
    IN  IF status = 0 THEN <<"raise", r, r>>
        ELSE IF skip_404(a, status) THEN <<"continue">>
        ELSE IF status \in {401, 403} THEN <<"raise", "SecvestApiError", "auth_failed">>
        ELSE IF status = 409 THEN <<"raise", "ClientResponseError", "conflict">>
        ELSE IF 400 <= status /\ status <= 499
             THEN <<"raise", "SecvestApiError", "http_4xx">>
        ELSE IF 500 <= status /\ status <= 599
             THEN <<"raise", "ClientResponseError", "server_error">>
        ELSE IF ~a.expect_json THEN <<"return", "ok:None">>
        ELSE IF r = "200_not_json"
             THEN <<"raise", "SecvestApiError", "response_not_json">>
        ELSE <<"return", "ok:json">>

\* what the body of the `async with` raises or returns for a response
\* (lines 100-128): <<"continue">>, <<"raise", class, reason>> or <<"return", v>>
classify(a, r) ==
    LET status == status_of(r)
    IN  IF status = 0 THEN <<"raise", r, r>>
        ELSE IF skip_404(a, status) THEN <<"continue">>
        ELSE IF status \in {401, 403} THEN <<"raise", "SecvestApiError", "auth_failed">>
        ELSE IF status = 409 THEN <<"raise", "SecvestApiError", "conflict">>
        ELSE IF 400 <= status /\ status <= 499
             THEN <<"raise", "SecvestApiError", "http_4xx">>
        ELSE IF 500 <= status /\ status <= 599
             THEN <<"raise", "ClientResponseError", "server_error">>
        ELSE IF ~a.expect_json THEN <<"return", "ok:None">>
        ELSE IF r = "200_not_json"
             THEN <<"raise", "SecvestApiError", "response_not_json">>
        ELSE <<"return", "ok:json">>

\* the transport failures that are worth a retry: timeout, connection error, 5xx
TransportFailures ==
    {"500", "TimeoutError", "ClientConnectorError", "ServerDisconnectedError"}

\* observation: the response just received, and whether every response of this
\* call so far was a transport failure, was a timeout
api_observe(a, r) ==
    [a EXCEPT !.last_response = r,
              !.only_transient = @ /\ r \in TransportFailures,
              !.only_timeout = @ /\ r = "TimeoutError"]

\* a call of _request_json starts (lines 84-91)
ApiCall(retries, npaths, expect_json) ==
    /\ api.pc \in {"idle", "done"}
    /\ LET a == [ApiIdle EXCEPT !.retries = retries, !.npaths = npaths,
                                !.expect_json = expect_json]
       IN  api' = IF 1 <= retries THEN api_request(a, 1, 1)
                  ELSE api_done(a, "SecvestApiError:request_failed_after_retries",
                                a.last_exc)
    /\ UNCHANGED coordVars

\* the pending request ends with response r (lines 99-144)
ApiRespond(r) ==
    /\ api.pc = "request"
    /\ LET c == classify(api_observe(api, r), r)
       IN  api' = CASE c[1] = "continue" -> api_next_path(api_observe(api, r))
                    [] c[1] = "return" -> api_done(api_observe(api, r), c[2], None)
                    [] c[1] = "raise" /\ retryable(c[2]) ->
                          [api_observe(api, r) EXCEPT !.pc = "sleep", !.last_exc = c[2]]
                    [] c[1] = "raise" /\ c[2] = "SecvestApiError" ->
                          api_done(api_observe(api, r), "SecvestApiError:" \o c[3], None)
                    [] OTHER ->
                          api_done(api_observe(api, r),
                                   "SecvestApiError:unexpected_error", c[2])
    /\ UNCHANGED coordVars

\* await asyncio.sleep(self._backoff(attempt)), then `break` (lines 139-140)
ApiSleep(j) ==
    /\ api.pc = "sleep"
    /\ api' = api_next_attempt(
                  [api EXCEPT !.sleeps = Append(@, [attempt |-> api.attempt,
                                                    delay |-> backoff(api.attempt, j)])])
    /\ UNCHANGED coordVars

NextApi ==
    \/ \E retries \in 0..MaxRetries, npaths \in 1..MaxPaths, expect_json \in BOOLEAN :
           ApiCall(retries, npaths, expect_json)
    \/ \E r \in Responses : ApiRespond(r)
    \/ \E j \in Jitters : ApiSleep(j)

SpecApi == Init /\ [][NextApi]_vars

----------------------------------------------------------------------------
\* The status model over raw zone lists: successful ticks of a coordinator
\* whose panel answers get_zones() with any list of up to MaxZones records

\* the records a raw zone list is made of
ZoneRecords ==
    { Z(TRUE, <<"T", "ü", "r">>, "open"),
      Z(TRUE, <<"a", " ", "b">>, "closed"),
      Z(TRUE, <<"a", "_", "b">>, "open"),
      Z(TRUE, <<>>, "open"),
      Z(TRUE, NotStr, "open"),
      Z(TRUE, <<"K">>, NotStrState),
      Z(FALSE, NotStr, NotStrState) }

RawZoneLists ==
    UNION { [1..n -> ZoneRecords] : n \in 0..MaxZones }

NextZones ==
    \/ TickStart
    \/ \E m \in DeviceModes : TickGetModeOk(m)
    \/ \E p \in RawZoneLists : TickGetZonesOk(p)

SpecZones == Init /\ [][NextZones]_vars

----------------------------------------------------------------------------
\* The coordinator while the panel recovers: time keeps passing, scheduled
\* ticks keep firing, and the device answers again once the breaker has opened

\* time passes; past MaxClock it goes on only until an open breaker expires
AdvanceLive ==
    /\ clock + TimeStep <= MaxClock \/ clock < breaker_until
    /\ clock' = clock + TimeStep
    /\ tick' = forget_tick
    /\ cmd' = forget_cmd
    /\ UNCHANGED <<cfg, data, zones_tick, consecutive_failures, breaker_until,
                   last_error, hist, api>>

\* a device call of a tick fails: only while the breaker has not opened
TickFailsBeforeOpen ==
    /\ breaker_until = 0
    /\ clock <= MaxClock
    /\ (TickFailsClassified \/ TickFailsUnexpected)

\* the zone list of a panel without zones
NoZones == <<>>

\* the commands are represented by the set_mode service arming "partset": its
\* forced refresh is the one command step that changes the coordinator
NextLive ==
    \/ AdvanceLive
    \/ TickShortCircuit
    \/ TickStart
    \/ \E m \in DeviceModes : TickGetModeOk(m)
    \/ \E p \in ZonePayloads \cup {NoZones} : TickGetZonesOk(p)
    \/ TickFailsBeforeOpen
    \/ ServiceStart("partset")
    \/ \E p \in ZonePayloads : RefreshOk(p)
    \/ RefreshFails("SecvestApiError")
    \/ SetModeOk

\* the scheduler keeps firing ticks, the clock keeps running and an awaited
\* device call of a tick is answered (every answer to get_zones is enabled
\* in the same states, so fairness of one of them is fairness of the call)
SpecLive ==
    /\ Init
    /\ [][NextLive]_vars
    /\ WF_vars(AdvanceLive)
    /\ WF_vars(TickStart)
    /\ WF_vars(\E m \in DeviceModes : TickGetModeOk(m))
    /\ WF_vars(TickGetZonesOk(NoZones))

----------------------------------------------------------------------------
\* The commands on top of the device client: api.get_zones() and
\* api.set_mode() are calls of _request_json with two candidate paths

\* the command awaits api.get_zones() (expects JSON) or api.set_mode() (does not)
ClientCall(retries) ==
    /\ cmd.pc \in {"refresh", "set_mode"}
    /\ api.pc = "idle"
    /\ ApiCall(retries, 2, cmd.pc = "refresh")

\* get_zones, lines 159-165: _request_json returned a list
ClientGetZonesOk(p) ==
    /\ cmd.pc = "refresh"
    /\ api.pc = "done"
    /\ api.result = "ok:json"
    /\ refresh_zones_now(p)
    /\ cmd' = cmd_after_refresh_ok(data')
    /\ tick' = tick_after_refresh(TRUE)
    /\ api' = ApiIdle
    /\ UNCHANGED <<cfg, clock, zones_tick>>

\* get_zones, lines 159-164: _request_json raised, or returned JSON that is
\* not a list ("Invalid zones payload")
ClientGetZonesFails ==
    /\ cmd.pc = "refresh"
    /\ api.pc = "done"
    /\ cmd' = cmd_after_refresh_failed("SecvestApiError")
    /\ tick' = tick_after_refresh(FALSE)
    /\ api' = ApiIdle
    /\ UNCHANGED <<cfg, clock, data, zones_tick, consecutive_failures,
                   breaker_until, last_error, hist>>

\* set_mode, lines 167-174: _request_json returned
ClientSetModeOk ==
    /\ cmd.pc = "set_mode"
    /\ api.pc = "done"
    /\ api.result = "ok:None"
    /\ cmd' = cmd_after_set_mode_ok
    /\ tick' = forget_tick
    /\ api' = ApiIdle
    /\ UNCHANGED <<cfg, clock, data, zones_tick, consecutive_failures,
                   breaker_until, last_error, hist>>

\* set_mode, lines 167-174: _request_json raised (always SecvestApiError)
ClientSetModeFails ==
    /\ cmd.pc = "set_mode"
    /\ api.pc = "done"
    /\ api.result /= "ok:None"
    /\ cmd' = CmdEnds(cmd, set_mode_error(cmd.kind, "SecvestApiError"))
    /\ tick' = forget_tick
    /\ api' = ApiIdle
    /\ UNCHANGED <<cfg, clock, data, zones_tick, consecutive_failures,
                   breaker_until, last_error, hist>>

NextCmd ==
    \/ \E mode \in ServiceModes : ServiceRejects(mode)
    \/ \E mode \in ServiceModes : ServiceStart(mode)
    \/ \E mode \in {"partset", "set"} : EntityArmStart(mode)
    \/ EntityDisarmStart
    \/ \E retries \in 1..MaxRetries : ClientCall(retries)
    \/ \E r \in Responses : ApiRespond(r)
    \/ \E j \in Jitters : ApiSleep(j)
    \/ \E p \in ZonePayloads : ClientGetZonesOk(p)
    \/ ClientGetZonesFails
    \/ ClientSetModeOk
    \/ ClientSetModeFails

SpecCmd == Init /\ [][NextCmd]_vars

----------------------------------------------------------------------------
\* Properties

InLog(x, log) == \E i \in 1..Len(log) : log[i] = x

ArmModes == {"set", "partset"}

IsError(result) == result \notin {"none", "ok"}

\* C1: with a Snapshot held, the failing tick that makes the run of consecutive
\* failed ticks (no successful device call in between) reach the threshold
\* T >= 1 sets breaker-open-until to the time of that failure plus the
\* cooldown (the coordinator's: the configured one, at least 10 s); and a
\* tick that starts while the time is before breaker-open-until makes no
\* get_mode and no get_zones call and publishes one Snapshot with
\* available = false.
C1_BreakerOpens ==
    /\ [][(/\ data /= <<>>
           /\ hist'.streak = hist.streak + 1
           /\ hist'.streak >= Max(1, cfg.breaker_threshold))
          => breaker_until' = clock + Max(10, cfg.breaker_cooldown)]_vars
    /\ [](tick.done /\ tick.open_at_start /\ tick.had_data
          => /\ tick.calls = <<>>
             /\ tick.published = 1
             /\ tick.result /= <<>>
             /\ ~tick.result[1].available
             /\ data = tick.result)

C1_Witness ==
    /\ cfg.breaker_threshold = 2
    /\ hist.streak >= cfg.breaker_threshold
    /\ clock < breaker_until
    /\ tick.done /\ tick.open_at_start /\ tick.had_data
    /\ tick.calls = <<>>
    /\ ~data[1].available

\* C2 (as stated): every force refresh that ends, ends with failure counter 0,
\* breaker-open-until 0 and exactly one new Snapshot with available = true.
C2_EveryRefreshClears ==
    [][(cmd.pc = "refresh" /\ cmd'.pc /= "refresh")
       => /\ InLog("get_zones", cmd'.log)
          /\ consecutive_failures' = 0
          /\ breaker_until' = 0
          /\ cmd'.published = cmd.published + 1
          /\ data' /= <<>>
          /\ data'[1].available]_vars

\* C2 (amended): every force refresh calls get_zones, and every force refresh
\* whose get_zones call succeeds, in any coordinator state including an open
\* breaker, ends with failure counter 0, breaker-open-until 0 and exactly one
\* new Snapshot with available = true.
C2_SuccessfulRefreshClears ==
    [][(cmd.pc = "refresh" /\ cmd'.pc /= "refresh")
       => /\ InLog("get_zones", cmd'.log)
          /\ InLog("refresh_ok", cmd'.log)
             => /\ consecutive_failures' = 0
                /\ breaker_until' = 0
                /\ cmd'.published = cmd.published + 1
                /\ data' /= <<>>
                /\ data'[1].available]_vars

C2_Witness ==
    /\ InLog("refresh_ok", cmd.log)
    /\ cmd.was_open
    /\ cmd.published = 1
    /\ consecutive_failures = 0
    /\ breaker_until = 0
    /\ data[1].available

\* C3: an arm command ("set" or "partset", service or alarm entity) whose
\* inspected Snapshot has a non-empty open_zone_names ends in an error and
\* never issues set_mode.
C3_OpenZonesBlockArming ==
    (cmd.mode \in ArmModes /\ cmd.seen /= <<>> /\ cmd.seen[1].open /= <<>>)
    => /\ cmd.pc = "idle"
       /\ IsError(cmd.result)
       /\ ~InLog("set_mode", cmd.log)

C3_Witness ==
    /\ cmd.kind = "service"
    /\ cmd.mode = "partset"
    /\ cmd.seen /= <<>>
    /\ Len(cmd.seen[1].open) >= 2
    /\ cmd.result = "HomeAssistantError:open_zones"
    /\ ~InLog("set_mode", cmd.log)

\* C4: whenever an arm command issues set_mode, the Snapshot its open-zone
\* check inspected carried the zones of the forced refresh of that command.
C4_ArmDecisionOnFreshZones ==
    (cmd.mode \in ArmModes /\ InLog("set_mode", cmd.log))
    => /\ cmd.seen /= <<>>
       /\ cmd.seen[1].has_data
       /\ cmd.seen[1].from = "refresh"

\* C5: an arm command ends in an error without issuing set_mode whenever its
\* forced zone refresh failed or the coordinator holds no Snapshot.
C5_ArmRefusedWhenUnreachableOrUnknown ==
    (/\ cmd.mode \in ArmModes
     /\ \/ InLog("refresh_failed", cmd.log)
        \/ (cmd.seen /= <<>> /\ ~cmd.seen[1].has_data))
    => /\ cmd.pc = "idle"
       /\ IsError(cmd.result)
       /\ ~InLog("set_mode", cmd.log)

\* C6: the set_mode service called with a mode outside {set, partset, unset}
\* ends in an error at once: no forced refresh, no get_zones, no set_mode, no
\* refresh request, and the coordinator state is unchanged.
C6_UnknownModeRejectedFirst ==
    [][(cmd' /= cmd /\ cmd'.kind = "service" /\ cmd'.mode \notin {"set", "partset", "unset"})
       => /\ cmd'.pc = "idle"
          /\ cmd'.result = "HomeAssistantError:invalid_mode"
          /\ cmd'.log = <<>>
          /\ cmd'.published = 0
          /\ UNCHANGED <<data, zones_tick, consecutive_failures, breaker_until,
                         last_error>>]_vars

C6_Witness ==
    /\ cmd.kind = "service"
    /\ cmd.mode = "bogus"
    /\ cmd.result = "HomeAssistantError:invalid_mode"
    /\ cmd.log = <<>>
    /\ clock < breaker_until
    /\ data /= <<>>

\* the friendly names of the zones whose state is "open", in zones order
OpenFriendlyNames(zones) ==
    LET open == SelectSeq(zones, LAMBDA z : z.state = "open")
    IN  [i \in 1..Len(open) |-> open[i].friendly_name]

Consistent(snapshot) ==
    /\ snapshot.open_zone_names = OpenFriendlyNames(snapshot.zones)
    /\ snapshot.open_zones_csv = join(<<",", " ">>, OpenFriendlyNames(snapshot.zones))
    /\ snapshot.open_zones_spoken = make_spoken_zone_list(OpenFriendlyNames(snapshot.zones))

\* C7: every published Snapshot (by a successful, degraded or short-circuited
\* tick or by a force refresh) has open_zone_names equal to the friendly names
\* of its zones whose state is "open", in zones order, and open_zones_csv and
\* open_zones_spoken are the renderings of that list.
C7_SnapshotConsistent ==
    /\ data /= <<>> => Consistent(data[1])
    /\ tick.result /= <<>> => Consistent(tick.result[1])

C7_Witness ==
    /\ data /= <<>>
    /\ ~data[1].available
    /\ Len(data[1].open_zone_names) >= 2
    /\ tick.done
    /\ tick.failure = "SecvestApiError"

\* C8: a scheduled tick raises update-failed only when the coordinator holds
\* no Snapshot; with a Snapshot held, a failed tick (classified error, timeout,
\* unexpected exception, breaker short-circuit) raises nothing and returns a
\* Snapshot with available = false.
C8_FailuresAbsorbed ==
    tick.done
    => /\ tick.raised => ~tick.had_data
       /\ (tick.had_data /\ tick.failure /= "none")
          => /\ ~tick.raised
             /\ tick.result /= <<>>
             /\ ~tick.result[1].available

C8_Witness ==
    /\ tick.done
    /\ tick.had_data
    /\ tick.failure = "Exception"
    /\ ~tick.raised
    /\ ~tick.result[1].available

\* C9: when every request of a call fails with a retryable transport failure,
\* the call issues exactly `retries` requests in total and then raises the
\* ApiError that wraps the last transport error.
C9_RetriesExactly ==
    (api.pc = "done" /\ api.only_transient)
    => /\ Len(api.requests) = api.retries
       /\ api.result = "SecvestApiError:request_failed_after_retries"
       /\ api.cause = api.last_exc
       /\ api.retries >= 1
          => api.cause = (IF api.last_response = "500" THEN "ClientResponseError"
                          ELSE api.last_response)

C9_Witness ==
    /\ api.pc = "done"
    /\ api.only_transient
    /\ api.retries = 3
    /\ api.npaths = 2
    /\ Len(api.requests) = 3
    /\ api.cause = "TimeoutError"

\* C10: a 404 on the first of two candidate paths is followed by the request
\* of the second path in the same attempt, with no sleep and the attempt
\* counter unchanged; a success on that second path ends the call with its
\* result, the attempt counter still unchanged and no sleep.
C10_NotFoundTriesNextPath ==
    /\ [][(/\ api.pc = "request" /\ api.npaths = 2 /\ api.path = 1
           /\ api' /= api /\ api'.last_response = "404")
          => /\ api'.pc = "request"
             /\ api'.attempt = api.attempt
             /\ api'.path = 2
             /\ api'.requests = Append(api.requests, <<api.attempt, 2>>)
             /\ api'.sleeps = api.sleeps]_vars
    /\ [][(/\ api.pc = "request" /\ api.npaths = 2 /\ api.path = 2
           /\ api' /= api /\ api'.last_response = "200")
          => /\ api'.pc = "done"
             /\ api'.result \in {"ok:json", "ok:None"}
             /\ api'.attempt = api.attempt
             /\ api'.requests = api.requests
             /\ api'.sleeps = api.sleeps]_vars

C10_Witness ==
    /\ api.pc = "done"
    /\ api.result = "ok:json"
    /\ api.requests = << <<1, 1>>, <<1, 2>> >>
    /\ api.sleeps = <<>>
    /\ api.attempt = 1

\* the results with which a call of the device client raises ApiError
ApiErrorResults ==
    {"SecvestApiError:auth_failed", "SecvestApiError:conflict",
     "SecvestApiError:http_4xx", "SecvestApiError:response_not_json",
     "SecvestApiError:unexpected_error",
     "SecvestApiError:request_failed_after_retries"}

\* C11: a response with status 401, 403 or 409, or a 2xx response whose body
\* is not JSON when JSON is expected, ends the call at once with ApiError: no
\* further request (other candidate path or other attempt) and no sleep.
C11_FatalStatusEndsCall ==
    [][(/\ api.pc = "request" /\ api' /= api
        /\ \/ api'.last_response \in {"401", "403", "409"}
           \/ (api'.last_response = "200_not_json" /\ api.expect_json))
       => /\ api'.pc = "done"
          /\ api'.result \in {"SecvestApiError:auth_failed", "SecvestApiError:conflict",
                              "SecvestApiError:response_not_json"}
          /\ api'.requests = api.requests
          /\ api'.sleeps = api.sleeps]_vars

C11_Witness ==
    /\ api.pc = "done"
    /\ api.retries = 3
    /\ api.npaths = 2
    /\ api.last_response = "409"
    /\ api.result = "SecvestApiError:conflict"
    /\ api.requests = << <<1, 1>>, <<2, 1>> >>
    /\ Len(api.sleeps) = 1

\* C12: a 4xx response other than 401, 403, 409 ends the call at once with
\* ApiError and no further request, unless it is a 404 on a candidate path
\* that has another candidate path after it in the same attempt; a 404 on the
\* last candidate path of an attempt starts no other attempt.
C12_Other4xxEndsCall ==
    [][(/\ api.pc = "request" /\ api' /= api
        /\ api'.last_response \in {"400", "404"}
        /\ ~(api'.last_response = "404" /\ api.path < api.npaths))
       => /\ api'.pc = "done"
          /\ api'.result \in ApiErrorResults
          /\ api'.requests = api.requests
          /\ api'.sleeps = api.sleeps]_vars

\* the error class a failed call of the device client belongs to
FailureClass(a) ==
    IF a.requests /= <<>> /\ a.only_timeout THEN "HomeAssistantError:timeout"
    ELSE IF a.result = "SecvestApiError:unexpected_error" THEN "HomeAssistantError:unknown"
    ELSE "HomeAssistantError:api"

\* C13: every failure of a direct command (arm, disarm, set_mode service), in
\* its forced zone refresh or in its mode-change call, ends the command with
\* the user-facing error of its class: the timeout error when every attempt
\* timed out, the API error for an API failure, the unknown error otherwise.
C13_CommandErrorsClassified ==
    [][(/\ cmd.pc \in {"refresh", "set_mode"}
        /\ api.pc = "done" /\ api'.pc = "idle"
        /\ api.result \in ApiErrorResults)
       => /\ cmd'.pc = "idle"
          /\ cmd'.result = FailureClass(api)]_vars

Healthy ==
    /\ data /= <<>>
    /\ data[1].available
    /\ consecutive_failures = 0
    /\ breaker_until = 0

\* C15: an open breaker does not stay open: when ticks keep firing, time
\* passes breaker-open-until and the device answers from then on, the
\* coordinator is Healthy again (Snapshot with available = true, failure
\* counter 0, breaker-open-until 0); every tick that starts at or after
\* breaker-open-until calls get_mode; a successful force refresh makes the
\* coordinator Healthy at any time.
C15_BreakerCloses ==
    /\ (clock < breaker_until) ~> Healthy
    /\ []((tick.pc /= "idle" \/ tick.done) /\ ~tick.open_at_start
          => tick.calls /= <<>> /\ tick.calls[1] = "get_mode")
    /\ [][(cmd.pc = "refresh" /\ InLog("refresh_ok", cmd'.log)) => Healthy']_vars

C15_Witness ==
    /\ cfg.breaker_threshold = 2
    /\ consecutive_failures >= 2
    /\ 0 < breaker_until
    /\ breaker_until <= clock
    /\ tick.pc = "get_mode"
    /\ data /= <<>>
    /\ ~data[1].available

\* a tick that has just ended well after fetching the zones
ZonesTickDone ==
    /\ tick.done
    /\ tick.failure = "none"
    /\ InLog("get_zones", tick.calls)

\* the rows of a raw zone list that carry a string name and a string state
ValidRows(p) ==
    {i \in 1..Len(p) : p[i].isdict /\ p[i].name /= NotStr /\ p[i].state /= NotStrState}

KeySeq(zones) == [i \in 1..Len(zones) |-> zones[i].key]

\* the raw name/state fields of a zones mapping, as a raw zone list
RawFieldsOf(zones) ==
    [i \in 1..Len(zones) |-> Z(TRUE, zones[i].name, zones[i].state)]

\* C16: for every raw zone list, the mapping build_zones_dict returns has
\* exactly the keys of the rows that carry a string name and a string state,
\* every stored zone has a string name, state, key and friendly name taken
\* from such a row, and rebuilding from the name/state fields of the mapping
\* yields the same keys.
C16_BuildZonesWellFormed ==
    ZonesTickDone
    => LET p == tick.zones_payload
           out == tick.result[1].zones
       IN  /\ {out[i].key : i \in 1..Len(out)}
                = {normalize_name(p[j].name) : j \in ValidRows(p)}
           /\ \A i \in 1..Len(out) :
                 /\ out[i].name /= NotStr
                 /\ out[i].state /= NotStrState
                 /\ out[i].friendly_name /= NotStr
                 /\ \E j \in ValidRows(p) :
                       /\ p[j].name = out[i].name
                       /\ p[j].state = out[i].state
                       /\ normalize_name(p[j].name) = out[i].key
           /\ KeySeq(build_zones_dict(RawFieldsOf(out), ZoneNameMap)) = KeySeq(out)

C16_Witness ==
    /\ ZonesTickDone
    /\ Len(tick.zones_payload) = 3
    /\ tick.zones_payload[1] = Z(TRUE, NotStr, "open")
    /\ tick.zones_payload[2] = Z(TRUE, <<"K">>, NotStrState)
    /\ tick.zones_payload[3] = Z(TRUE, <<"a", " ", "b">>, "closed")
    /\ KeySeq(tick.result[1].zones) = << <<"a", "_", "b">> >>

\* C17: a raw zone record whose name is the empty string is dropped: no zone
\* with an empty key, name or friendly name is stored or listed in
\* open_zone_names; and records with distinct names never share a key (the
\* mapping has one entry per distinct name).
C17_EmptyNameDropped ==
    ZonesTickDone
    => LET p == tick.zones_payload
           out == tick.result[1].zones
           open == tick.result[1].open_zone_names
           names == {p[j].name : j \in ValidRows(p)}
       IN  /\ \A i \in 1..Len(out) :
                 /\ out[i].key /= <<>>
                 /\ out[i].name /= <<>>
                 /\ out[i].friendly_name /= <<>>
           /\ \A i \in 1..Len(open) : open[i] /= <<>>
           /\ Len(out) = Cardinality(names \ {<<>>})

RECURSIVE Enumeration(_)
\* "A", "A und B", "A, B und C", ...
Enumeration(names) ==
    IF Len(names) = 1 THEN names[1]
    ELSE IF Len(names) = 2 THEN names[1] \o <<" ", "u", "n", "d", " ">> \o names[2]
    ELSE names[1] \o <<",", " ">> \o Enumeration(Tail(names))

\* C18: the spoken list of no name is the empty string; of one name it is a
\* sentence made of a fixed phrase, the name and "."; of n >= 2 names it is a
\* fixed phrase, the first n-1 names joined by ", ", then " und ", the last
\* name and "."; there is no other form.
C18_SpokenList ==
    ZonesTickDone
    => LET names == tick.result[1].open_zone_names
           s == tick.result[1].open_zones_spoken
       IN  /\ Len(names) = 0 => s = <<>>
           /\ Len(names) = 1
              => /\ Len(s) = Len(names[1]) + 2
                 /\ SubSeq(s, 2, Len(s) - 1) = names[1]
                 /\ s[Len(s)] = "."
                 /\ s[1] = "Ich konnte die Alarmanlage nicht aktivieren, bitte schließe: "
           /\ Len(names) >= 2
              => /\ SubSeq(s, 2, Len(s)) = Enumeration(names) \o <<".">>
                 /\ s[1] = "Ich konnte die Alarmanlage nicht aktivieren, bitte folgende Fenster und Türen schließen: "

C18_Witness ==
    /\ ZonesTickDone
    /\ Len(tick.result[1].open_zone_names) = 3
    /\ tick.result[1].open_zones_spoken
         = <<SpokenMany, "a", " ", "b", ",", " ", "H", "a", "u", "s", " ", "u", "n", "d", " ", ".">>

\* the display label of a mode string
Label(mode) ==
    CASE mode = "set" -> "Scharf"
      [] mode = "partset" -> "Teilscharf"
      [] mode = "unset" -> "Unscharf"
      [] OTHER -> "Unbekannt"

\* C19: right after a scheduled tick that completed successfully, the failure
\* counter is 0, breaker-open-until is 0 and the Snapshot held is the one the
\* tick returned: available = true, raw_mode the mode the device returned,
\* human_mode its label ("Unbekannt" for an unmapped mode), no last_error.
C19_SuccessfulTickResets ==
    (tick.done /\ tick.failure = "none")
    => /\ consecutive_failures = 0
       /\ breaker_until = 0
       /\ last_error = None
       /\ data = tick.result
       /\ data /= <<>>
       /\ data[1].available
       /\ tick.raw_mode \in DeviceModes
       /\ data[1].raw_mode = tick.raw_mode
       /\ data[1].human_mode = Label(tick.raw_mode)
       /\ data[1].last_error = None

C19_Witness ==
    /\ tick.done
    /\ tick.failure = "none"
    /\ tick.had_data
    /\ tick.calls = <<"get_mode", "get_zones">>
    /\ tick.raw_mode = "night"
    /\ data[1].human_mode = "Unbekannt"
    /\ clock >= 10
    /\ cmd.pc = "set_mode"

\* C20: when get_mode of a scheduled tick succeeds the zone accumulator grows
\* by the poll interval; if it has then reached the zones interval, get_zones
\* is called and the accumulator is reset to 0; otherwise the tick ends with
\* no get_zones call and publishes a Snapshot whose zones mapping is the one
\* of the Snapshot held before (empty when there is none).
C20_ZoneCadence ==
    [][(tick.pc = "get_mode" /\ tick' /= tick /\ tick'.failure = "none")
       => IF zones_tick + ScanInterval >= ZonesInterval
          THEN /\ tick'.pc = "get_zones"
               /\ tick'.calls = <<"get_mode", "get_zones">>
               /\ zones_tick' = 0
          ELSE /\ zones_tick' = zones_tick + ScanInterval
               /\ tick'.done
               /\ tick'.calls = <<"get_mode">>
               /\ data' /= <<>>
               /\ data'[1].zones = (IF data = <<>> THEN <<>> ELSE data[1].zones)]_vars

C20_Witness ==
    /\ tick.done
    /\ tick.failure = "none"
    /\ tick.calls = <<"get_mode">>
    /\ zones_tick = ScanInterval
    /\ Len(data[1].zones) >= 2

\* C21: a failed scheduled tick (one whose device call failed) adds exactly 1
\* to the failure counter, sets breaker-open-until to now + cooldown if the
\* counter has then reached the threshold and leaves it alone otherwise, and
\* stores the error text; with a Snapshot held it publishes a Snapshot with the
\* same raw_mode, human_mode and zones, available = false and last_error the
\* error text; with none held it raises, after the same accounting.
C21_FailedTickAccounting ==
    [][(/\ tick.pc \in {"get_mode", "get_zones"}
        /\ tick' /= tick
        /\ tick'.failure /= "none")
       => /\ consecutive_failures' = consecutive_failures + 1
          /\ breaker_until'
               = (IF consecutive_failures + 1 >= Max(1, cfg.breaker_threshold)
                  THEN clock + Max(10, cfg.breaker_cooldown)
                  ELSE breaker_until)
          /\ last_error' = tick'.failure
          /\ tick'.done
          /\ IF data /= <<>>
             THEN /\ ~tick'.raised
                  /\ data' /= <<>>
                  /\ data'[1].raw_mode = data[1].raw_mode
                  /\ data'[1].human_mode = data[1].human_mode
                  /\ data'[1].zones = data[1].zones
                  /\ ~data'[1].available
                  /\ data'[1].last_error = tick'.failure
             ELSE /\ tick'.raised
                  /\ data' = <<>>]_vars

C21_Witness ==
    /\ tick.done
    /\ tick.failure = "TimeoutError"
    /\ tick.had_data
    /\ cfg.breaker_threshold = 2
    /\ consecutive_failures = 1
    /\ breaker_until = 0
    /\ Len(data[1].zones) >= 2
    /\ ~data[1].available
    /\ data[1].last_error = "TimeoutError"

\* the responses the request loop retries
RetryableResponses ==
    {"500", "TimeoutError", "ClientConnectorError", "ServerDisconnectedError",
     "ClientPayloadError"}

\* C22: a retryable failure (timeout, connection error, payload error, 5xx)
\* on any candidate path of attempt a is followed by exactly one sleep of
\* backoff(a) = base * 2^(a-1) + jitter and then by the first candidate path
\* of attempt a+1; no other path of attempt a is requested; only when a was
\* the last attempt does the call fail, with the retries-exhausted ApiError.
C22_RetryableBacksOff ==
    /\ [][(/\ api.pc = "request" /\ api' /= api
           /\ api'.last_response \in RetryableResponses)
          => /\ api'.pc = "sleep"
             /\ api'.attempt = api.attempt
             /\ api'.requests = api.requests
             /\ api'.sleeps = api.sleeps]_vars
    /\ [][(api.pc = "sleep" /\ api' /= api)
          => /\ Len(api'.sleeps) = Len(api.sleeps) + 1
             /\ api'.sleeps[Len(api'.sleeps)].attempt = api.attempt
             /\ \E j \in 0..(DEFAULT_JITTER - 1) :
                   api'.sleeps[Len(api'.sleeps)].delay
                     = DEFAULT_BACKOFF_BASE * (2 ^ (api.attempt - 1)) + j
             /\ IF api.attempt < api.retries
                THEN /\ api'.pc = "request"
                     /\ api'.attempt = api.attempt + 1
                     /\ api'.path = 1
                     /\ api'.requests = Append(api.requests, <<api.attempt + 1, 1>>)
                ELSE /\ api'.pc = "done"
                     /\ api'.result = "SecvestApiError:request_failed_after_retries"
                     /\ api'.requests = api.requests]_vars

C22_Witness ==
    /\ api.pc = "request"
    /\ api.npaths = 2
    /\ api.requests = << <<1, 1>>, <<1, 2>>, <<2, 1>>, <<3, 1>> >>
    /\ Len(api.sleeps) = 2
    /\ api.sleeps[1].attempt = 1
    /\ api.sleeps[2].attempt = 2
    /\ api.sleeps[2].delay = 2 * DEFAULT_BACKOFF_BASE + DEFAULT_JITTER - 1
    /\ api.last_response = "500"

\* C23: the steps of an arm command come in this order: forced zone refresh
\* (get_zones), inspection of the Snapshot for open zones, set_mode, request
\* of an out-of-band refresh; set_mode is never issued before the inspection,
\* and the refresh is requested only right after a set_mode that succeeded
\* (never when set_mode failed or the arming was refused).
C23_ArmStepOrder ==
    (cmd.mode \in ArmModes /\ cmd.kind \in {"service", "entity"} /\ cmd.log /= <<>>)
    => /\ cmd.log[1] = "get_zones"
       /\ \A i \in 1..Len(cmd.log) :
             /\ cmd.log[i] = "get_zones" => i = 1
             /\ cmd.log[i] = "inspect"
                => i = 3 /\ cmd.log[2] \in {"refresh_ok", "refresh_failed"}
             /\ cmd.log[i] = "set_mode" => i = 4 /\ cmd.log[3] = "inspect"
             /\ cmd.log[i] = "request_refresh"
                => i = 5 /\ cmd.log[4] = "set_mode" /\ cmd.result = "ok"
       /\ (cmd.pc = "idle" /\ cmd.result /= "ok")
          => ~InLog("request_refresh", cmd.log)
       /\ cmd.result = "ok" => InLog("request_refresh", cmd.log)

C23_Witness ==
    /\ cmd.kind = "entity"
    /\ cmd.mode = "set"
    /\ cmd.pc = "idle"
    /\ cmd.result = "ok"
    /\ cmd.log = <<"get_zones", "refresh_ok", "inspect", "set_mode", "request_refresh">>
    /\ tick.pc = "get_zones"

\* C24: in every published Snapshot, available = true implies that last_error
\* is empty; in particular the Snapshot a force refresh publishes after a
\* degraded poll carries no error text.
C24_AvailableHasNoError ==
    /\ (data /= <<>> /\ data[1].available) => data[1].last_error = None
    /\ (tick.result /= <<>> /\ tick.result[1].available)
       => tick.result[1].last_error = None

\* C25: a scheduled tick short-circuited by the open breaker leaves the failure
\* counter, breaker-open-until, the stored last error and the zone accumulator
\* unchanged, and the Snapshot it republishes has the raw_mode, human_mode and
\* zones of the Snapshot held before.
C25_ShortCircuitFrame ==
    [][(tick.pc = "idle" /\ tick'.done /\ tick'.failure = "breaker")
       => /\ UNCHANGED <<consecutive_failures, breaker_until, last_error, zones_tick>>
          /\ tick'.calls = <<>>
          /\ IF data /= <<>>
             THEN /\ data' /= <<>>
                  /\ data'[1].raw_mode = data[1].raw_mode
                  /\ data'[1].human_mode = data[1].human_mode
                  /\ data'[1].zones = data[1].zones
                  /\ ~data'[1].available
             ELSE data' = <<>>]_vars

C25_Witness ==
    /\ tick.done
    /\ tick.failure = "breaker"
    /\ tick.had_data
    /\ zones_tick = ScanInterval
    /\ consecutive_failures = 2
    /\ breaker_until = 15
    /\ clock = 10
    /\ Len(data[1].zones) >= 1
    /\ data[1].raw_mode = "night"

\* C26: in every reachable coordinator state, under any interleaving of ticks
\* and force refreshes at their network calls, the failure counter is >= 0 and
\* a non-zero breaker-open-until implies a counter >= the effective threshold
\* (the configured one clamped to at least 1); the counter and the breaker
\* timestamp are only ever cleared together.
C26_CounterAndBreaker ==
    /\ [](/\ consecutive_failures >= 0
          /\ breaker_until /= 0
             => consecutive_failures >= Max(1, cfg.breaker_threshold))
    /\ [][/\ (consecutive_failures /= 0 /\ consecutive_failures' = 0)
             => breaker_until' = 0
          /\ (breaker_until /= 0 /\ breaker_until' = 0)
             => consecutive_failures' = 0
          /\ consecutive_failures' < consecutive_failures
             => consecutive_failures' = 0]_vars

C26_Witness ==
    /\ cfg.breaker_threshold = 2
    /\ breaker_until /= 0
    /\ consecutive_failures = 2
    /\ tick.pc = "get_zones"
    /\ cmd.pc = "refresh"

\* C27: the expiry of the cooldown does not reset the failure counter: once the
\* breaker has opened and the cooldown has elapsed with no successful tick and
\* no force refresh in between, one failed scheduled tick opens the breaker
\* again for a full cooldown, without another `threshold` failures.
C27_ReopensAfterOneFailure ==
    [][(/\ tick.pc \in {"get_mode", "get_zones"}
        /\ tick'.done
        /\ tick'.failure \notin {"none", "breaker"}
        /\ hist.streak >= Max(1, cfg.breaker_threshold))
       => /\ breaker_until /= 0
          /\ breaker_until <= clock
          /\ consecutive_failures >= Max(1, cfg.breaker_threshold)
          /\ consecutive_failures' = consecutive_failures + 1
          /\ breaker_until' = clock + Max(10, cfg.breaker_cooldown)
          /\ clock' < breaker_until'
          /\ Len(tick'.calls) <= 2]_vars

C27_Witness ==
    /\ cfg.breaker_threshold = 2
    /\ hist.streak = 3
    /\ tick.done
    /\ tick.failure = "TimeoutError"
    /\ tick.calls = <<"get_mode">>
    /\ clock = 15
    /\ breaker_until = 30

\* C28: when get_mode succeeded on a scheduled tick and the due get_zones call
\* fails, the tick is accounted as a failure: the counter grows by one, the
\* degraded Snapshot carries the previous raw_mode and not the one just read,
\* with available = false; the zone accumulator is 0 already before the
\* failure and stays 0, so that get_zones is due again only after a full zones
\* interval has accumulated.
C28_ZonesFailureAfterModeOk ==
    [][(tick.pc = "get_zones" /\ tick'.done /\ tick'.failure /= "none")
       => /\ consecutive_failures' = consecutive_failures + 1
          /\ last_error' = tick'.failure
          /\ zones_tick = 0
          /\ zones_tick' = 0
          /\ ~zones_due(zones_tick' + ScanInterval)
          /\ tick'.calls = <<"get_mode", "get_zones">>
          /\ IF data /= <<>>
             THEN /\ data' /= <<>>
                  /\ data'[1].raw_mode = data[1].raw_mode
                  /\ data'[1].human_mode = data[1].human_mode
                  /\ data'[1].zones = data[1].zones
                  /\ ~data'[1].available
                  /\ data'[1].last_error = tick'.failure
             ELSE data' = <<>> /\ tick'.raised]_vars

C28_Witness ==
    /\ tick.done
    /\ tick.failure = "SecvestApiError"
    /\ tick.calls = <<"get_mode", "get_zones">>
    /\ tick.raw_mode = "night"
    /\ data /= <<>>
    /\ data[1].raw_mode = "unset"
    /\ ~data[1].available
    /\ zones_tick = 0
    /\ consecutive_failures = 1

\* C29: when a scheduled tick and a force refresh overlap, each suspended at its
\* network call, the Snapshot's zones are those of the get_zones call issued
\* last: the answer to a tick's older get_zones call does not replace the zones
\* a later-started force refresh has published, the answer to a force
\* refresh's older call does not replace the zones of a tick whose call was
\* issued after it, and a tick that calls only get_mode keeps the zones a force
\* refresh published while it ran.
C29_LastIssuedZonesWin ==
    [][/\ (/\ tick.pc = "get_zones"
           /\ tick.rival = "later_published"
           /\ tick'.done
           /\ tick'.failure = "none")
          => data'[1].zones = data[1].zones
       /\ (cmd.pc = "refresh" /\ cmd.overtaken /\ cmd'.pc /= "refresh")
          => data'[1].zones = data[1].zones
       /\ (/\ tick.pc = "get_mode"
           /\ tick'.done
           /\ tick'.failure = "none"
           /\ data /= <<>>)
          => data'[1].zones = data[1].zones]_vars

====
